---------------------------- MODULE Spec2Model ----------------------------
(***************************************************************************)
(* A model of package backoff (backoff.go): the Backoff counter, its       *)
(* constructors, Duration, Reset and Tries, the package-level defaults and *)
(* the package-level random source installed by init().                    *)
(*                                                                         *)
(* Durations are machine integers.  The source computes with 64-bit        *)
(* integers (time.Duration is int64, tries and n are uint64); the model    *)
(* keeps the same two's-complement arithmetic at Width bits, and counts    *)
(* durations in units of five minutes so that the two default durations of *)
(* the package (5 minutes, 6 hours = 72 units) fit that width.             *)
(***************************************************************************)
EXTENDS Integers, FiniteSets, Sequences, TLC

\* Width of the machine integers (64 in the source, scaled down here).
Width == 9
\* The sequential client stops calling Duration() at MaxTries tries,
MaxTries == 9
\* the concurrent client at ConcTries tries.
ConcTries == 2

\* var DefaultInterval = 5 * time.Minute
InitDefaultInterval == 1
\* var DefaultMaxDuration = 6 * time.Hour
InitDefaultMaxDuration == 72

Modulus == 2 ^ Width
MaxInt == 2 ^ (Width - 1) - 1
MinInt == 0 - 2 ^ (Width - 1)

\* The value of a result slot that holds no result (outside the integer range).
None == MinInt - 1

Threads == {"t1", "t2"}
Backoffs == {"b1", "b2"}
NoBackoff == "nil"
Free == "free"

(***************************************************************************)
(* The client programs the package is checked with: the goroutines that    *)
(* call into the package, the counters they share, the arguments they pass *)
(* to New and NewWithoutJitter and the values they assign to the defaults. *)
(***************************************************************************)
SeqProgram ==
  [threads |-> {"t1"}, backoffs |-> {"b1"}, tries |-> MaxTries,
   intervals |-> {-1, 0, InitDefaultInterval, 3},
   maxes |-> {-1, 0, 5, InitDefaultMaxDuration, MaxInt},
   defIntervals |-> {0, 2}, defMaxes |-> {0}]

ConcProgram ==
  [threads |-> Threads, backoffs |-> Backoffs, tries |-> ConcTries,
   intervals |-> {1},
   maxes |-> {2},
   defIntervals |-> {InitDefaultInterval},
   defMaxes |-> {InitDefaultMaxDuration}]

VARIABLES
  prog,                \* the client program (fixed in a behaviour)
  phase,               \* "load" before init(), then "run" or "aborted"
  prng,                \* var prng *mrand.Rand: "nil" or the kind of its seed
  DefaultInterval,     \* var DefaultInterval
  DefaultMaxDuration,  \* var DefaultMaxDuration
  made,                \* how each counter was created ("none": not yet)
  maxDuration, interval, noJitter, tries, n, lock,   \* the fields of Backoff
  pc, self,            \* where each goroutine is, and on which counter
  lt, ln,              \* the tries and n a Duration() call has loaded
  bound,               \* the argument of a running prng.Int63n call
  ret,                 \* the value a call is about to return
  calls,               \* history: Duration() bodies run since creation or Reset
  fixed,               \* history: all of them ran with interval, maxDuration # 0
  wasReset,            \* history: Reset() has run on the counter
  args,                \* history: the <<max, interval>> the counter was made with
  prior,               \* history: calls[b] when this call's body ran
  last,                \* history: what the last jitter-free Duration() since
                       \* creation or Reset computed to return (None: none)
  overridden           \* history: the client has changed a default

fields == <<maxDuration, interval, noJitter, tries, n>>
locals == <<lt, ln, bound, ret, prior>>
defaults == <<DefaultInterval, DefaultMaxDuration, overridden>>
history == <<calls, fixed, wasReset, args, last>>
vars == <<prog, phase, prng, DefaultInterval, DefaultMaxDuration, made,
          maxDuration, interval, noJitter, tries, n, lock, pc, self,
          lt, ln, bound, ret, calls, fixed, wasReset, args, prior,
          last, overridden>>

---------------------------------------------------------------------------
(* Machine arithmetic *)

\* int64(x): the two's-complement value of x
ToInt(x) ==
  LET m == x % Modulus IN IF m > MaxInt THEN m - Modulus ELSE m

\* u << k on an unsigned machine word
Shl(u, k) == IF k >= Width THEN 0 ELSE (u * 2 ^ k) % Modulus

\* a * b on time.Duration
Mul(a, b) == ToInt(a * b)

\* pow := uint64(1 << b.n)
Pow(e) == Shl(1, e)

\* a variant that grows by the interval, not by doubling
RawLinear(i, e) == Mul(i, e + 1)
\* t := time.Duration(pow); t = b.interval * t
Raw(i, e) == Mul(i, ToInt(Pow(e)))

\* a variant that tests the power alone, not the duration
GrowsPowOnly(i, e) == Pow(e) < Shl(Pow(e), 1)
\* pow < (pow<<1) && t < b.interval*time.Duration(pow<<1)
Grows(i, e) ==
  /\ Pow(e) < Shl(Pow(e), 1)
  /\ Raw(i, e) < Mul(i, ToInt(Shl(Pow(e), 1)))

\* a variant that grows the exponent on every call
NextNAlways(i, e) == (e + 1) % Modulus
\* a variant that never grows the exponent
NextNStuck(i, e) == e
\* if ... { b.n++ }
NextN(i, e) == IF Grows(i, e) THEN (e + 1) % Modulus ELSE e

\* a variant without the clamp
ClampNone(t, max) == t
\* if t > b.maxDuration { t = b.maxDuration }
Clamp(t, max) == IF t > max THEN max ELSE t

\* a variant of b.tries++ that loses the increment
IncTriesLost(tr) == tr
\* b.tries++
IncTries(tr) == (tr + 1) % Modulus

\* a variant of the draw that includes its bound
Int63nClosed(b) == 0 .. b
\* prng.Int63n(b): any value of [0, b); it panics when b <= 0
Int63n(b) == 0 .. (b - 1)
Int63nPanics(b) == b <= 0

\* a variant of setup's test that never applies a default
IsUnsetNever(v) == FALSE
\* a variant of setup's test that applies the default to every value
IsUnsetAlways(v) == TRUE
\* if b.interval == 0, if b.maxDuration == 0
IsUnset(v) == v = 0

\* a variant of Lock that does not wait
CanLockAlways(b) == TRUE
\* b.lock.Lock() returns only when no goroutine holds the lock
CanLock(b) == lock[b] = Free

---------------------------------------------------------------------------
(* The initial state: the package is loaded, init() has not run *)

InitWith(p) ==
  /\ prog = p
  /\ phase = "load"
  /\ prng = "nil"
  /\ DefaultInterval = InitDefaultInterval
  /\ DefaultMaxDuration = InitDefaultMaxDuration
  /\ made = [b \in Backoffs |-> "none"]
  /\ maxDuration = [b \in Backoffs |-> 0]
  /\ interval = [b \in Backoffs |-> 0]
  /\ noJitter = [b \in Backoffs |-> FALSE]
  /\ tries = [b \in Backoffs |-> 0]
  /\ n = [b \in Backoffs |-> 0]
  /\ lock = [b \in Backoffs |-> Free]
  /\ pc = [t \in Threads |-> "idle"]
  /\ self = [t \in Threads |-> NoBackoff]
  /\ lt = [t \in Threads |-> 0]
  /\ ln = [t \in Threads |-> 0]
  /\ bound = [t \in Threads |-> 0]
  /\ ret = [t \in Threads |-> None]
  /\ calls = [b \in Backoffs |-> 0]
  /\ fixed = [b \in Backoffs |-> TRUE]
  /\ wasReset = [b \in Backoffs |-> FALSE]
  /\ args = [b \in Backoffs |-> <<0, 0>>]
  /\ prior = [t \in Threads |-> 0]
  /\ last = [b \in Backoffs |-> None]
  /\ overridden = FALSE

Init == InitWith(SeqProgram)
InitConc == InitWith(ConcProgram)

---------------------------------------------------------------------------
(* func init() *)

\* a variant of init() that seeds from the clock when the read fails
PkgInitFallback ==
  /\ phase = "load"
  /\ \E ok \in BOOLEAN :
       /\ prng' = IF ok THEN "crypto" ELSE "time"
       /\ phase' = "run"
  /\ UNCHANGED <<prog, made, fields, lock, pc, self, locals, history, defaults>>

\* io.ReadFull(rand.Reader, buf[:]) fails or succeeds
PkgInit ==
  /\ phase = "load"
  /\ \E ok \in BOOLEAN :
       IF ok
         THEN prng' = "crypto" /\ phase' = "run"
         ELSE prng' = prng /\ phase' = "aborted"
  /\ UNCHANGED <<prog, made, fields, lock, pc, self, locals, history, defaults>>

---------------------------------------------------------------------------
(* The package-level defaults, assigned by the client *)

SetDefaultInterval(v) ==
  /\ phase = "run"
  /\ DefaultInterval' = v
  /\ overridden' = (overridden \/ v # DefaultInterval)
  /\ UNCHANGED <<prog, phase, prng, DefaultMaxDuration, made, fields, lock,
                 pc, self, locals, history>>

SetDefaultMaxDuration(v) ==
  /\ phase = "run"
  /\ DefaultMaxDuration' = v
  /\ overridden' = (overridden \/ v # DefaultMaxDuration)
  /\ UNCHANGED <<prog, phase, prng, DefaultInterval, made, fields, lock,
                 pc, self, locals, history>>

---------------------------------------------------------------------------
(* Construction *)

\* b.setup(), on the two fields
SetupInterval(i) == IF IsUnset(i) THEN DefaultInterval ELSE i
SetupMaxDuration(m) == IF IsUnset(m) THEN DefaultMaxDuration ELSE m

Construct(b, how, a, max, i, nj) ==
  /\ phase = "run"
  /\ made[b] = "none"
  /\ made' = [made EXCEPT ![b] = how]
  /\ args' = [args EXCEPT ![b] = a]
  /\ maxDuration' = [maxDuration EXCEPT ![b] = max]
  /\ interval' = [interval EXCEPT ![b] = i]
  /\ noJitter' = [noJitter EXCEPT ![b] = nj]
  /\ UNCHANGED <<prog, phase, prng, tries, n, lock, pc, self, locals,
                 calls, fixed, wasReset, last, defaults>>

\* b := new(Backoff), b := &backoff.Backoff{}
NewZero(b) == Construct(b, "zero", <<0, 0>>, 0, 0, FALSE)

\* a variant of New that leaves the defaults to the first Duration()
NewLazy(b, max, i) == Construct(b, "New", <<max, i>>, max, i, FALSE)
\* func New(max, interval)
New(b, max, i) ==
  Construct(b, "New", <<max, i>>, SetupMaxDuration(max), SetupInterval(i), FALSE)

\* func NewWithoutJitter(max, interval)
NewWithoutJitter(b, max, i) ==
  Construct(b, "NewWithoutJitter", <<max, i>>,
            SetupMaxDuration(max), SetupInterval(i), TRUE)

---------------------------------------------------------------------------
(* The calls a goroutine starts *)

Start(t, b, at) ==
  /\ phase = "run"
  /\ pc[t] = "idle"
  /\ made[b] # "none"
  /\ pc' = [pc EXCEPT ![t] = at]
  /\ self' = [self EXCEPT ![t] = b]
  /\ UNCHANGED <<prog, phase, prng, made, fields, lock, locals, history,
                 defaults>>

\* b.Duration(): the call begins in b.setup()
DurationCall(t, b) ==
  /\ tries[b] < prog.tries
  /\ calls[b] < prog.tries
  /\ Start(t, b, "setup_interval")

\* b.Reset(): the call begins at b.lock.Lock()
ResetCall(t, b) == Start(t, b, "reset_lock")

\* b.Tries(): the call begins at b.lock.Lock()
TriesCall(t, b) == Start(t, b, "tries_lock")

---------------------------------------------------------------------------
(* func (b *Backoff) setup(), as Duration() runs it: without the lock *)

Goto(t, to) == pc' = [pc EXCEPT ![t] = to]

\* if b.interval == 0
SetupReadInterval(t) ==
  /\ pc[t] = "setup_interval"
  /\ Goto(t, IF IsUnset(interval[self[t]]) THEN "setup_interval_w"
                                             ELSE "setup_max")
  /\ UNCHANGED <<prog, phase, prng, made, fields, lock, self, locals,
                 history, defaults>>

\* b.interval = DefaultInterval
SetupWriteInterval(t) ==
  /\ pc[t] = "setup_interval_w"
  /\ interval' = [interval EXCEPT ![self[t]] = DefaultInterval]
  /\ Goto(t, "setup_max")
  /\ UNCHANGED <<prog, phase, prng, made, maxDuration, noJitter, tries, n,
                 lock, self, locals, history, defaults>>

\* if b.maxDuration == 0
SetupReadMax(t) ==
  /\ pc[t] = "setup_max"
  /\ Goto(t, IF IsUnset(maxDuration[self[t]]) THEN "setup_max_w"
                                                ELSE "duration_lock")
  /\ UNCHANGED <<prog, phase, prng, made, fields, lock, self, locals,
                 history, defaults>>

\* b.maxDuration = DefaultMaxDuration
SetupWriteMax(t) ==
  /\ pc[t] = "setup_max_w"
  /\ maxDuration' = [maxDuration EXCEPT ![self[t]] = DefaultMaxDuration]
  /\ Goto(t, "duration_lock")
  /\ UNCHANGED <<prog, phase, prng, made, interval, noJitter, tries, n,
                 lock, self, locals, history, defaults>>

---------------------------------------------------------------------------
(* b.lock.Lock() and the deferred b.lock.Unlock() *)

LockAt(t, at, to) ==
  /\ pc[t] = at
  /\ CanLock(self[t])
  /\ lock' = [lock EXCEPT ![self[t]] = t]
  /\ Goto(t, to)
  /\ UNCHANGED <<prog, phase, prng, made, fields, self, locals, history,
                 defaults>>

DurationLock(t) == LockAt(t, "duration_lock", "load")
ResetLock(t) == LockAt(t, "reset_lock", "reset")
TriesLock(t) == LockAt(t, "tries_lock", "tries")

UnlockPcs == {"duration_unlock", "reset_unlock", "tries_unlock"}

\* defer b.lock.Unlock(), and the return to the caller
Unlock(t) ==
  /\ pc[t] \in UnlockPcs
  /\ lock' = [lock EXCEPT ![self[t]] = Free]
  /\ Goto(t, "idle")
  /\ self' = [self EXCEPT ![t] = NoBackoff]
  /\ ret' = [ret EXCEPT ![t] = None]
  /\ prior' = [prior EXCEPT ![t] = 0]
  /\ UNCHANGED <<prog, phase, prng, made, fields, lt, ln, bound, history,
                 defaults>>

---------------------------------------------------------------------------
(* func (b *Backoff) Duration(), under the lock *)

\* the reads of b.tries and b.n
DurationLoad(t) ==
  /\ pc[t] = "load"
  /\ lt' = [lt EXCEPT ![t] = tries[self[t]]]
  /\ ln' = [ln EXCEPT ![t] = n[self[t]]]
  /\ Goto(t, "store")
  /\ UNCHANGED <<prog, phase, prng, made, fields, lock, self, bound, ret,
                 prior, history, defaults>>

\* Some goroutine other than t is inside prng.Int63n
OthersDrawing(t) ==
  \E u \in Threads \ {t} : pc[u] \in {"draw", "draw_raced"}

\* b.tries++, the computation of t, b.n++, the clamp, and the test of noJitter
DurationStore(t) ==
  LET b == self[t]
      d == Clamp(Raw(interval[b], ln[t]), maxDuration[b])
  IN
  /\ pc[t] = "store"
  /\ tries' = [tries EXCEPT ![b] = IncTries(lt[t])]
  /\ n' = [n EXCEPT ![b] = NextN(interval[b], ln[t])]
  /\ lt' = [lt EXCEPT ![t] = 0]
  /\ ln' = [ln EXCEPT ![t] = 0]
  /\ calls' = [calls EXCEPT ![b] = @ + 1]
  /\ prior' = [prior EXCEPT ![t] = calls[b]]
  /\ fixed' = [fixed EXCEPT ![b] = @ /\ interval[b] # 0 /\ maxDuration[b] # 0]
  /\ last' = [last EXCEPT ![b] = IF noJitter[b] THEN d ELSE None]
  /\ IF noJitter[b]
       THEN /\ ret' = [ret EXCEPT ![t] = d]
            /\ Goto(t, "duration_unlock")
            /\ UNCHANGED bound
       ELSE /\ bound' = [bound EXCEPT ![t] = d]
            /\ IF OthersDrawing(t) /\ ~Int63nPanics(d)
                 THEN pc' = [u \in Threads |->
                               IF u = t \/ (pc[u] = "draw" /\ ~Int63nPanics(bound[u]))
                                 THEN "draw_raced" ELSE pc[u]]
                 ELSE Goto(t, "draw")
            /\ UNCHANGED ret
  /\ UNCHANGED <<prog, phase, prng, made, maxDuration, interval, noJitter,
                 lock, self, wasReset, args, defaults>>

\* prng.Int63n(int64(t)) returns v
DrawReturn(t, v) ==
  /\ pc[t] \in {"draw", "draw_raced"}
  /\ ~Int63nPanics(bound[t])
  /\ v \in Int63n(bound[t])
  /\ ret' = [ret EXCEPT ![t] = v]
  /\ bound' = [bound EXCEPT ![t] = 0]
  /\ Goto(t, "duration_unlock")
  /\ UNCHANGED <<prog, phase, prng, made, fields, lock, self, lt, ln, prior,
                 history, defaults>>

\* prng.Int63n panics: on a bound <= 0, or inside the generator when another
\* goroutine is using it at the same time.  The deferred Unlock runs.
DrawPanic(t) ==
  /\ \/ pc[t] = "draw" /\ Int63nPanics(bound[t])
     \/ pc[t] = "draw_raced"
  /\ lock' = [lock EXCEPT ![self[t]] = Free]
  /\ bound' = [bound EXCEPT ![t] = 0]
  /\ Goto(t, "panicked")
  /\ UNCHANGED <<prog, phase, prng, made, fields, self, lt, ln, ret, prior,
                 history, defaults>>

---------------------------------------------------------------------------
(* func (b *Backoff) Reset() and Tries(), under the lock *)

\* a variant of Reset that leaves the exponent
ResetStoreKeepN(t) ==
  /\ pc[t] = "reset"
  /\ tries' = [tries EXCEPT ![self[t]] = 0]
  /\ calls' = [calls EXCEPT ![self[t]] = 0]
  /\ fixed' = [fixed EXCEPT ![self[t]] = TRUE]
  /\ wasReset' = [wasReset EXCEPT ![self[t]] = TRUE]
  /\ last' = [last EXCEPT ![self[t]] = None]
  /\ Goto(t, "reset_unlock")
  /\ UNCHANGED <<prog, phase, prng, made, maxDuration, interval, noJitter, n,
                 lock, self, locals, args, defaults>>

\* b.tries = 0; b.n = 0
ResetStore(t) ==
  /\ pc[t] = "reset"
  /\ tries' = [tries EXCEPT ![self[t]] = 0]
  /\ n' = [n EXCEPT ![self[t]] = 0]
  /\ calls' = [calls EXCEPT ![self[t]] = 0]
  /\ fixed' = [fixed EXCEPT ![self[t]] = TRUE]
  /\ wasReset' = [wasReset EXCEPT ![self[t]] = TRUE]
  /\ last' = [last EXCEPT ![self[t]] = None]
  /\ Goto(t, "reset_unlock")
  /\ UNCHANGED <<prog, phase, prng, made, maxDuration, interval, noJitter,
                 lock, self, locals, args, defaults>>

\* return b.tries
TriesRead(t) ==
  /\ pc[t] = "tries"
  /\ ret' = [ret EXCEPT ![t] = tries[self[t]]]
  /\ Goto(t, "tries_unlock")
  /\ UNCHANGED <<prog, phase, prng, made, fields, lock, self, lt, ln, bound,
                 prior, history, defaults>>

---------------------------------------------------------------------------

Next ==
  \/ PkgInit
  \/ \E v \in prog.defIntervals : SetDefaultInterval(v)
  \/ \E v \in prog.defMaxes : SetDefaultMaxDuration(v)
  \/ \E b \in prog.backoffs : NewZero(b)
  \/ \E b \in prog.backoffs, m \in prog.maxes, i \in prog.intervals : New(b, m, i)
  \/ \E b \in prog.backoffs, m \in prog.maxes, i \in prog.intervals :
       NewWithoutJitter(b, m, i)
  \/ \E t \in prog.threads, b \in prog.backoffs : DurationCall(t, b)
  \/ \E t \in prog.threads, b \in prog.backoffs : ResetCall(t, b)
  \/ \E t \in prog.threads, b \in prog.backoffs : TriesCall(t, b)
  \/ \E t \in prog.threads : SetupReadInterval(t)
  \/ \E t \in prog.threads : SetupWriteInterval(t)
  \/ \E t \in prog.threads : SetupReadMax(t)
  \/ \E t \in prog.threads : SetupWriteMax(t)
  \/ \E t \in prog.threads : DurationLock(t)
  \/ \E t \in prog.threads : ResetLock(t)
  \/ \E t \in prog.threads : TriesLock(t)
  \/ \E t \in prog.threads : DurationLoad(t)
  \/ \E t \in prog.threads : DurationStore(t)
  \/ \E t \in prog.threads : \E v \in Int63n(bound[t]) : DrawReturn(t, v)
  \/ \E t \in prog.threads : DrawPanic(t)
  \/ \E t \in prog.threads : ResetStore(t)
  \/ \E t \in prog.threads : TriesRead(t)
  \/ \E t \in prog.threads : Unlock(t)

\* One goroutine, one counter: the sequential use of the package
Spec == Init /\ [][Next]_vars

\* Two goroutines, two counters
SpecConc == InitConc /\ [][Next]_vars

---------------------------------------------------------------------------
(* What the calls are expected to return, stated without machine arithmetic *)

Min(a, b) == IF a <= b THEN a ELSE b

\* interval * 2^k fits the signed machine integer
Fits(i, k) == i * 2 ^ k <= MaxInt

\* Goroutine t is about to return from Duration()
Returning(t) == pc[t] = "duration_unlock"

\* Goroutine t is inside prng.Int63n with a bound the generator accepts
Drawing(t) == pc[t] \in {"draw", "draw_raced"} /\ ~Int63nPanics(bound[t])

\* The exponent of a fresh counter after k calls of Duration(), and what its
\* call number k (from 0) returns when jitter is off
RECURSIVE FreshN(_, _)
FreshN(i, k) == IF k = 0 THEN 0 ELSE NextN(i, FreshN(i, k - 1))
FreshDuration(i, m, k) == Clamp(Raw(i, FreshN(i, k)), m)

---------------------------------------------------------------------------
\* C1: without jitter, with interval > 0 and maxDuration > 0, the Duration()
\* call preceded by k calls since construction or the last Reset() returns
\* min(interval * 2^k, maxDuration), for every k for which interval * 2^k
\* does not overflow the signed machine integer.
C1_NthDuration ==
  \A t \in Threads :
    LET b == self[t] IN
    (/\ Returning(t)
     /\ noJitter[b] /\ fixed[b] /\ interval[b] > 0 /\ maxDuration[b] > 0
     /\ Fits(interval[b], prior[t]))
    => ret[t] = Min(interval[b] * 2 ^ prior[t], maxDuration[b])

\* the call preceded by 4 calls returns 3 * 2^4, below the maximum
C1_Witness ==
  \E t \in Threads :
    /\ Returning(t) /\ noJitter[self[t]] /\ fixed[self[t]]
    /\ interval[self[t]] = 3 /\ prior[t] = 4 /\ ret[t] = 48
    /\ maxDuration[self[t]] > 48

\* C2: with interval > 0 and maxDuration > 0, every value Duration() returns,
\* with or without jitter, after any calls of Duration() and Reset(), also
\* after the exponent has stopped growing, is >= 0 and <= maxDuration.
C2_WithinMax ==
  \A t \in Threads :
    (Returning(t) /\ interval[self[t]] > 0 /\ maxDuration[self[t]] > 0)
    => (0 <= ret[t] /\ ret[t] <= maxDuration[self[t]])

\* a call made after the exponent has stopped growing, with jitter
C2_Witness ==
  \E t \in Threads :
    /\ Returning(t) /\ ~noJitter[self[t]]
    /\ interval[self[t]] > 0 /\ maxDuration[self[t]] > 0
    /\ n[self[t]] < prior[t] /\ wasReset[self[t]]
    /\ ret[t] > 0

\* The bound C3 names for the call preceded by k calls
UpperBound(b, k) == Min(interval[b] * 2 ^ k, maxDuration[b])

\* C3 as stated: with jitter, interval > 0 and maxDuration > 0, the call
\* preceded by k calls returns d with 0 <= d < min(interval * 2^k,
\* maxDuration), and every value of that range is a possible result.
C3_Original ==
  \A t \in Threads :
    LET b == self[t] IN
    /\ (Drawing(t) /\ fixed[b] /\ interval[b] > 0 /\ maxDuration[b] > 0)
       => \A v \in 0 .. MaxInt :
            (ENABLED DrawReturn(t, v)) <=> (v < UpperBound(b, prior[t]))
    /\ (Returning(t) /\ ~noJitter[b] /\ fixed[b] /\ interval[b] > 0
        /\ maxDuration[b] > 0)
       => (0 <= ret[t] /\ ret[t] < UpperBound(b, prior[t]))

\* C3, amended: as C3_Original for every k for which interval * 2^k does not
\* overflow the signed machine integer; for every k the result d is within
\* 0 <= d < min(interval * 2^k, maxDuration).
C3_JitterRange ==
  \A t \in Threads :
    LET b == self[t] IN
    /\ (Drawing(t) /\ fixed[b] /\ interval[b] > 0 /\ maxDuration[b] > 0
        /\ Fits(interval[b], prior[t]))
       => \A v \in 0 .. MaxInt :
            (ENABLED DrawReturn(t, v)) <=> (v < UpperBound(b, prior[t]))
    /\ (Returning(t) /\ ~noJitter[b] /\ fixed[b] /\ interval[b] > 0
        /\ maxDuration[b] > 0)
       => (0 <= ret[t] /\ ret[t] < UpperBound(b, prior[t]))

\* a draw of the call preceded by 3 calls, over the range [0, 24)
C3_Witness ==
  \E t \in Threads :
    /\ Drawing(t) /\ fixed[self[t]] /\ interval[self[t]] = 3
    /\ prior[t] = 3 /\ bound[t] = 24 /\ maxDuration[self[t]] > 24

\* C4: Tries() equals the number of Duration() calls completed since
\* construction or the last Reset(): each Duration() adds exactly 1, whether
\* or not the exponent grows or the result is clamped, and Reset() sets 0.
C4_TriesCounts ==
  /\ \A b \in Backoffs : tries[b] = calls[b]
  /\ \A t \in Threads : pc[t] = "tries_unlock" => ret[t] = calls[self[t]]
  /\ \A t \in Threads : pc[t] = "reset_unlock" => tries[self[t]] = 0

\* Tries() returns 5 on a counter whose exponent has not grown with it
C4_Witness ==
  \E t \in Threads :
    /\ pc[t] = "tries_unlock" /\ ret[t] = 5
    /\ n[self[t]] < 5 /\ wasReset[self[t]]

\* C5: after Reset() the counter is as if fresh: tries and the exponent are
\* 0, and without jitter the next Duration() calls return what the calls of
\* a new counter with the same interval and maxDuration return.
C5_ResetIsFresh ==
  \A t \in Threads :
    LET b == self[t] IN
    /\ pc[t] = "reset_unlock" => (tries[b] = 0 /\ n[b] = 0)
    /\ (Returning(t) /\ wasReset[b] /\ noJitter[b] /\ fixed[b])
       => /\ ret[t] = FreshDuration(interval[b], maxDuration[b], prior[t])
          /\ prior[t] = 0 => ret[t] = Min(interval[b], maxDuration[b])

\* the third Duration() after a Reset() returns 4 * interval again
C5_Witness ==
  \E t \in Threads :
    /\ Returning(t) /\ wasReset[self[t]] /\ noJitter[self[t]]
    /\ interval[self[t]] = 3 /\ prior[t] = 2 /\ ret[t] = 12

\* The counter was made with no configuration, or with the documented
\* defaults given explicitly, and the defaults are the documented ones
Documented(b) ==
  /\ made[b] # "none"
  /\ ~overridden
  /\ args[b] \in {<<0, 0>>, <<InitDefaultMaxDuration, InitDefaultInterval>>}

\* C6: a zero-value Backoff behaves as one constructed with the documented
\* defaults: both have the default interval and maxDuration in every call,
\* the same tries, the same exponent and the same returned durations; a
\* counter from NewWithoutJitter(0, 0) holds both defaults and its first
\* Duration() is the default interval.
C6_ZeroValueAsDefaults ==
  \A b \in Backoffs :
    Documented(b) =>
      /\ (made[b] # "zero" \/ calls[b] > 0)
         => (interval[b] = InitDefaultInterval
             /\ maxDuration[b] = InitDefaultMaxDuration)
      /\ tries[b] = calls[b]
      /\ n[b] = FreshN(InitDefaultInterval, calls[b])
      /\ \A t \in Threads :
           (Returning(t) /\ self[t] = b) =>
             LET d == FreshDuration(InitDefaultInterval,
                                    InitDefaultMaxDuration, prior[t])
             IN /\ noJitter[b] => ret[t] = d
                /\ ~noJitter[b] => (0 <= ret[t] /\ ret[t] < d)
                /\ (noJitter[b] /\ prior[t] = 0 /\ ~wasReset[b])
                   => ret[t] = InitDefaultInterval

\* a zero-value counter returns from its fourth Duration()
C6_Witness ==
  \E t \in Threads :
    /\ Returning(t) /\ made[self[t]] = "zero" /\ ~overridden
    /\ prior[t] = 3 /\ ret[t] = 7
    /\ interval[self[t]] = InitDefaultInterval
    /\ maxDuration[self[t]] = InitDefaultMaxDuration

\* C7: concurrent Duration() and Reset() calls on one counter serialize:
\* whenever the counter's lock is free its tries are the calls completed
\* since the last Reset() and its exponent is the one a sequential run of as
\* many calls reaches, and without jitter each call returns what the call of
\* its rank returns in a sequential run.
C7_Serialized ==
  /\ \A b \in Backoffs :
       lock[b] = Free =>
         /\ tries[b] = calls[b]
         /\ fixed[b] => n[b] = FreshN(interval[b], calls[b])
  /\ \A t \in Threads :
       LET b == self[t] IN
       (Returning(t) /\ noJitter[b] /\ fixed[b])
       => ret[t] = FreshDuration(interval[b], maxDuration[b], prior[t])
  /\ \A t \in Threads, u \in Threads :
       (t # u /\ self[t] = self[u] /\ pc[t] \in UnlockPcs)
       => pc[u] \notin UnlockPcs \cup {"load", "store", "reset", "tries",
                                       "draw", "draw_raced"}

\* one goroutine returns from the second Duration() of a counter without
\* jitter while the other waits for the lock in its own Duration()
C7_Witness ==
  \E t \in Threads, u \in Threads :
    /\ t # u /\ self[t] = self[u]
    /\ Returning(t) /\ noJitter[self[t]] /\ prior[t] = 1 /\ ret[t] = 2
    /\ pc[u] = "duration_lock"

\* C8: no two goroutines are inside a draw on the shared generator at the
\* same time.
C8_DrawsExclusive ==
  \A t \in Threads, u \in Threads :
    (Drawing(t) /\ Drawing(u)) => t = u

\* C9: Duration() never panics, whatever interval and maxDuration New or
\* NewWithoutJitter was given (the defaults left as documented).
C9_NoPanic ==
  \A t \in Threads : ~(pc[t] = "panicked" /\ ~overridden)

\* What C10 says of every state
C10_State ==
  /\ prng \in {"nil", "crypto"}
  /\ phase = "load" => prng = "nil"
  /\ phase = "run" => prng = "crypto"
  /\ phase = "aborted" =>
       /\ prng = "nil"
       /\ \A t \in Threads : pc[t] = "idle"
       /\ \A b \in Backoffs : made[b] = "none"
  /\ \A t \in Threads : pc[t] \in {"draw", "draw_raced"} => prng = "crypto"

---------------------------------------------------------------------------
\* The exponent at which the growth of interval i stalls: the largest k for
\* which i * 2^k fits the signed machine integer
StallK(i) == CHOOSE k \in 0 .. Width : Fits(i, k) /\ ~Fits(i, k + 1)

\* C11: for interval > 0 the exponent grows with each call up to the last k
\* for which interval * 2^k does not overflow and stops there; every call
\* computes the raw duration interval * 2^exponent without wrapping, so the
\* calls made after the stall (until Reset) all compute the last
\* non-overflowing value, never a smaller, zero or negative one.
C11_GrowthStall ==
  /\ \A b \in Backoffs :
       (made[b] # "none" /\ fixed[b] /\ interval[b] > 0) =>
         /\ n[b] = Min(calls[b], StallK(interval[b]))
         /\ Raw(interval[b], n[b]) = interval[b] * 2 ^ n[b]
         /\ Raw(interval[b], n[b]) > 0
  /\ \A t \in Threads :
       LET b == self[t] IN
       (Returning(t) /\ noJitter[b] /\ fixed[b] /\ interval[b] > 0
        /\ maxDuration[b] = MaxInt)
       => ret[t] = interval[b] * 2 ^ Min(prior[t], StallK(interval[b]))

\* two calls after the stall of interval 3, the raw duration is returned
\* unclamped and is still the last non-overflowing value
C11_Witness ==
  \E t \in Threads :
    /\ Returning(t) /\ noJitter[self[t]] /\ fixed[self[t]]
    /\ interval[self[t]] = 3 /\ maxDuration[self[t]] = MaxInt
    /\ prior[t] = StallK(3) + 2
    /\ ret[t] = 3 * 2 ^ StallK(3)

\* C12 as stated: without jitter and with interval 1, for any positive
\* maxDuration up to the largest representable, the calls from the first
\* one whose 2^k reaches maxDuration on return exactly maxDuration, and no
\* call returns more.
C12_Original ==
  \A t \in Threads :
    LET b == self[t] IN
    (Returning(t) /\ noJitter[b] /\ fixed[b] /\ interval[b] = 1
     /\ maxDuration[b] > 0)
    => /\ ret[t] <= maxDuration[b]
       /\ 2 ^ prior[t] >= maxDuration[b] => ret[t] = maxDuration[b]

\* C12, amended: as C12_Original for maxDuration up to the largest power of
\* two the signed machine integer holds (2^(Width-2), 2^62 in the source);
\* for a larger maxDuration the calls level off at that power of two, below
\* maxDuration.
C12_Saturates ==
  \A t \in Threads :
    LET b == self[t] IN
    (Returning(t) /\ noJitter[b] /\ fixed[b] /\ interval[b] = 1
     /\ maxDuration[b] > 0)
    => /\ ret[t] <= maxDuration[b]
       /\ (maxDuration[b] <= 2 ^ (Width - 2) /\ 2 ^ prior[t] >= maxDuration[b])
          => ret[t] = maxDuration[b]
       /\ (maxDuration[b] > 2 ^ (Width - 2) /\ prior[t] >= Width - 2)
          => ret[t] = 2 ^ (Width - 2)

\* the call after the first one that returned maxDuration 72 returns it too
C12_Witness ==
  \E t \in Threads :
    /\ Returning(t) /\ noJitter[self[t]] /\ fixed[self[t]]
    /\ interval[self[t]] = 1 /\ maxDuration[self[t]] = 72
    /\ prior[t] = 8 /\ ret[t] = 72

---------------------------------------------------------------------------
\* C13: when the clamped duration is zero and jitter is on (a field left at
\* zero with its default set to zero), Duration() returns zero without
\* drawing over the empty range [0, 0).
C13_ZeroBoundNoDraw ==
  \A t \in Threads : pc[t] \in {"draw", "draw_raced"} => bound[t] # 0

\* The values setup() is given
SetupInputs ==
  prog.intervals \cup prog.maxes \cup {DefaultInterval, DefaultMaxDuration}

\* C14: setup() run twice gives what setup() run once gives, and no step of
\* Duration(), Reset() or Tries() changes an interval or a maxDuration that is
\* non-zero, nor the jitter flag of a counter.
C14_SetupFrame ==
  /\ [](\A v \in SetupInputs :
          /\ SetupInterval(SetupInterval(v)) = SetupInterval(v)
          /\ SetupMaxDuration(SetupMaxDuration(v)) = SetupMaxDuration(v)
          /\ v # 0 => (SetupInterval(v) = v /\ SetupMaxDuration(v) = v))
  /\ [][\A b \in Backoffs :
          made[b] # "none" =>
            /\ interval[b] # 0 => interval'[b] = interval[b]
            /\ maxDuration[b] # 0 => maxDuration'[b] = maxDuration[b]
            /\ noJitter'[b] = noJitter[b]]_vars

\* setup() has run again, in the third Duration() of a counter made with
\* interval 3, after the default interval was changed
C14_Witness ==
  \E t \in Threads :
    /\ pc[t] = "duration_lock" /\ calls[self[t]] = 2
    /\ interval[self[t]] = 3 /\ maxDuration[self[t]] = 5
    /\ DefaultInterval = 2 /\ noJitter[self[t]]

\* C15: the attempt counter is at least the exponent in every state, and the
\* exponent of a counter decreases in no step but that of Reset().
C15_TriesAtLeastN ==
  /\ [](\A b \in Backoffs : tries[b] >= n[b])
  /\ [][\A b \in Backoffs :
          \/ n'[b] >= n[b]
          \/ \E t \in Threads :
               self[t] = b /\ pc[t] = "reset" /\ pc'[t] = "reset_unlock"]_vars

\* after a Reset() the exponent has grown again and has stalled below tries
C15_Witness ==
  \E b \in Backoffs :
    /\ wasReset[b] /\ interval[b] > 0
    /\ n[b] = StallK(interval[b]) /\ tries[b] > n[b] + 1

\* No Duration() has run or is running on counter b
Unused(b) ==
  /\ made[b] # "none" /\ calls[b] = 0 /\ ~wasReset[b]
  /\ \A t \in Threads : self[t] # b

\* C16 as stated: a counter made with a zero interval or maxDuration, by New
\* or NewWithoutJitter as well as a zero-value counter, takes the value the
\* default has at its first Duration() call: until then the field is unset
\* or is the default's present value.
C16_Original ==
  \A b \in Backoffs :
    Unused(b) =>
      /\ args[b][2] = 0 => interval[b] \in {0, DefaultInterval}
      /\ args[b][1] = 0 => maxDuration[b] \in {0, DefaultMaxDuration}

\* C16, amended: a zero-value counter keeps a zero field until the setup of a
\* Duration() call fills it with the value the default has then; a counter
\* from New or NewWithoutJitter with a zero argument takes the value the
\* default has at construction; a field that is non-zero is not affected by
\* later changes of the defaults.
C16_DefaultsTaken ==
  /\ [](\A b \in Backoffs :
          (Unused(b) /\ made[b] = "zero")
          => (interval[b] = 0 /\ maxDuration[b] = 0))
  /\ [][\A b \in Backoffs :
          /\ (made[b] = "none" /\ made'[b] \in {"New", "NewWithoutJitter"})
             => /\ args'[b][2] = 0 => interval'[b] = DefaultInterval
                /\ args'[b][1] = 0 => maxDuration'[b] = DefaultMaxDuration
          /\ (made[b] # "none" /\ interval'[b] # interval[b])
             => /\ interval[b] = 0 /\ interval'[b] = DefaultInterval
                /\ \E t \in Threads :
                     self[t] = b /\ pc[t] = "setup_interval_w"
          /\ (made[b] # "none" /\ maxDuration'[b] # maxDuration[b])
             => /\ maxDuration[b] = 0 /\ maxDuration'[b] = DefaultMaxDuration
                /\ \E t \in Threads :
                     self[t] = b /\ pc[t] = "setup_max_w"]_vars

\* a counter from NewWithoutJitter(0, 0) returns, from its first Duration(),
\* the default interval of its construction, not the one set since
C16_Witness ==
  \E t \in Threads :
    /\ Returning(t) /\ made[self[t]] = "NewWithoutJitter"
    /\ args[self[t]] = <<0, 0>> /\ prior[t] = 0 /\ ~wasReset[self[t]]
    /\ DefaultInterval = 2 /\ interval[self[t]] = InitDefaultInterval
    /\ ret[t] = InitDefaultInterval

---------------------------------------------------------------------------
\* The places of a call between b.lock.Lock() and the deferred Unlock()
LockedPcs ==
  UnlockPcs \cup {"load", "store", "draw", "draw_raced", "reset", "tries"}

\* C17: every call releases the lock of its counter on every path (the lock
\* is held only by a goroutine between Lock and Unlock on that counter), and
\* every started call can end by returning: none ends in a panic.
C17_CallsReturn ==
  /\ \A b \in Backoffs :
       lock[b] # Free => (self[lock[b]] = b /\ pc[lock[b]] \in LockedPcs)
  /\ \A t \in Threads :
       pc[t] \in LockedPcs => lock[self[t]] = t
  /\ \A t \in Threads : pc[t] # "panicked"

\* The places of a call where it reads or writes b.interval, and where it
\* writes it
IntervalReads == {"setup_interval", "store"}
IntervalWrites == {"setup_interval_w"}
MaxReads == {"setup_max", "store"}
MaxWrites == {"setup_max_w"}

\* C18: no goroutine is about to write the interval or the maxDuration of a
\* counter while another goroutine is about to read or write it.
C18_SetupRaceFree ==
  \A t \in Threads, u \in Threads :
    (t # u /\ self[t] = self[u]) =>
      /\ pc[t] \in IntervalWrites
         => pc[u] \notin IntervalReads \cup IntervalWrites
      /\ pc[t] \in MaxWrites => pc[u] \notin MaxReads \cup MaxWrites

\* C19: for interval > 0 the exponent stays at most Width - 2 (62 in the
\* source), so the power 1 << n is a positive power of two, never 0; the same
\* holds of the exponent a running call has loaded.
C19_ExponentBelowWidth ==
  /\ \A b \in Backoffs :
       interval[b] > 0 =>
         /\ n[b] <= Width - 2
         /\ Pow(n[b]) = 2 ^ n[b] /\ ToInt(Pow(n[b])) > 0
  /\ \A t \in Threads :
       (pc[t] = "store" /\ interval[self[t]] > 0) =>
         /\ ln[t] <= Width - 2
         /\ Pow(ln[t]) = 2 ^ ln[t] /\ ToInt(Pow(ln[t])) > 0

\* a call has loaded the largest exponent, Width - 2, of a counter with
\* interval 1 that has been called more often than that
C19_Witness ==
  \E t \in Threads :
    /\ pc[t] = "store" /\ interval[self[t]] = 1
    /\ ln[t] = Width - 2 /\ tries[self[t]] > Width - 2

\* C20: without jitter, with interval > 0 and maxDuration > 0, a Duration()
\* call returns at least what the call before it returned since creation or
\* the last Reset(), also after the exponent has stalled.
C20_NonDecreasing ==
  [][\A t \in Threads :
       LET b == self[t] IN
       (/\ pc[t] = "store" /\ pc'[t] = "duration_unlock"
        /\ noJitter[b] /\ interval[b] > 0 /\ maxDuration[b] > 0
        /\ last[b] # None)
       => ret'[t] >= last[b]]_vars

\* a call after the stall returns what the call before it returned
C20_Witness ==
  \E t \in Threads :
    /\ Returning(t) /\ noJitter[self[t]] /\ interval[self[t]] = 3
    /\ maxDuration[self[t]] = MaxInt /\ wasReset[self[t]]
    /\ prior[t] = StallK(3) + 1 /\ ret[t] = 3 * 2 ^ StallK(3)
    /\ last[self[t]] = ret[t]

=============================================================================
